---- MODULE Spec2Model ----
(***************************************************************************)
(* A model of hecate's Tor circuit control (src/tor): the configuration    *)
(* builder, the credential generator, session construction, the two tunnel *)
(* presets and the circuit operations of BaseCircuit.                      *)
(*                                                                         *)
(* Python values are records [t |-> <type>, v |-> <value>]; Python str is  *)
(* a TLA+ string.  The daemon, the hashing subprocess, the control library *)
(* and the HTTP probe are the environment: their outcomes are inputs.      *)
(***************************************************************************)
EXTENDS Integers, Sequences, FiniteSets, TLC

(***************************************************************************)
(* Bounds of the model.                                                    *)
(***************************************************************************)
\* random streams are periodic with a period of at most MaxPeriod draws
MaxPeriod == 1
\* the daemon holds at most MaxCircuits open circuits
MaxCircuits == 2
\* a latency measurement takes at most MaxElapsed clock ticks
MaxElapsed == 1

\* the session slots a caller holds (two sessions in one process)
SessionIds == {1, 2}

(***************************************************************************)
(* Python values.                                                          *)
(***************************************************************************)
PyNone == [t |-> "none"]

PyBool(b) == [t |-> "bool", v |-> b]

PyInt(n) == [t |-> "int", v |-> n]

PyString(s) == [t |-> "str", v |-> s]

PyList(l) == [t |-> "list", v |-> l]

\* an exception instance, by the name of its class
PyExc(name) == [t |-> "exc", v |-> name]

\* Python truth value testing (if value:)
Truthy(value) ==
    CASE value.t = "none" -> FALSE
      [] value.t = "bool" -> value.v
      [] value.t = "int"  -> value.v # 0
      [] value.t = "str"  -> value.v # ""
      [] value.t = "list" -> value.v # <<>>
      [] OTHER -> TRUE

RECURSIVE Join(_, _)
\* sep.join(l) for a list of str
Join(l, sep) ==
    IF l = <<>> THEN ""
    ELSE IF Len(l) = 1 THEN l[1]
    ELSE l[1] \o sep \o Join(Tail(l), sep)

\* repr() of a str element (no quote or backslash occurs in a country code)
PyReprStr(s) == "'" \o s \o "'"

\* str(value), also what '%s' % value formats
PyStr(value) ==
    CASE value.t = "none" -> "None"
      [] value.t = "bool" -> (IF value.v THEN "True" ELSE "False")
      [] value.t = "int"  -> ToString(value.v)
      [] value.t = "str"  -> value.v
      [] value.t = "list" ->
            "[" \o Join([i \in 1..Len(value.v) |-> PyReprStr(value.v[i])], ", ") \o "]"
      [] OTHER -> "<class 'list'>"

\* cfg[key] = v on a dict
Put(cfg, key, v) ==
    [k \in (DOMAIN cfg) \cup {key} |-> IF k = key THEN v ELSE cfg[k]]

(***************************************************************************)
(* Config Builder: BaseCircuit.add_to_config and the head of __init__.     *)
(***************************************************************************)
\* `value is list`: identity with the builtin type object list
ValueIsList(value) == value.t = "type" /\ value.v = "list"

add_to_config(cfg, key, value) ==
    IF Truthy(value)
    THEN IF ValueIsList(value)
         THEN Put(cfg, key, Join(value.v, ","))
         ELSE Put(cfg, key, PyStr(value))
    ELSE cfg

\* a plausible slip: the flag keyed on the exit exclusion list
StrictNodesOnExits(cfg, a) ==
    IF Truthy(a.exclude_exits) THEN Put(cfg, "StrictNodes", "0") ELSE cfg

\* if exclude_nodes: self.tor_config['StrictNodes'] = '0'
StrictNodesStep(cfg, a) ==
    IF Truthy(a.exclude_nodes) THEN Put(cfg, "StrictNodes", "0") ELSE cfg

TransPortStep(cfg, a) ==
    IF Truthy(a.trans_ip) /\ Truthy(a.trans_port)
    THEN Put(cfg, "TransPort", PyStr(a.trans_ip) \o ":" \o PyStr(a.trans_port))
    ELSE cfg

\* self.tor_config as it stands before the credential is generated
BuildConfig(a) ==
    LET c0 == [k \in {"SocksPort", "ControlPort"} |->
                  IF k = "SocksPort"
                  THEN PyStr(a.listen_ip) \o ":" \o PyStr(a.socks_port)
                  ELSE PyStr(a.control_port)]
        c1 == add_to_config(c0, "DataDir", a.data_dir)
        c2 == add_to_config(c1, "ExcludeNodes", a.exclude_nodes)
        c3 == StrictNodesStep(c2, a)
        c4 == add_to_config(c3, "ExcludeExits", a.exclude_exits)
        c5 == add_to_config(c4, "ExitNodes", a.exit_nodes)
        c6 == add_to_config(c5, "EntryNodes", a.entry_nodes)
    IN  TransPortStep(c6, a)

(***************************************************************************)
(* Credential Generator: gen_passwd and get_hash.                          *)
(***************************************************************************)
\* range(20)
PasswdDraws == 20

\* the tuple random.choice draws from
chars == << "abcdefghijklmnopqrstuvwxyz",
            "ABCDEFGHIJKLMNOPQRSTUVWXYZ123456890" >>

\* the random streams: which element of chars each draw returns
Streams ==
    { [i \in 1..PasswdDraws |-> p[((i - 1) % MaxPeriod) + 1]] :
          p \in [1..MaxPeriod -> 1..Len(chars)] }

RECURSIVE JoinDraws(_, _)
JoinDraws(stream, i) ==
    IF i > PasswdDraws THEN "" ELSE chars[stream[i]] \o JoinDraws(stream, i + 1)

\* ''.join(random.choice(chars) for _ in range(20))
gen_passwd(stream) == JoinDraws(stream, 1)

\* what `tor --hash-password p` prints when it succeeds: a one-way salted
\* hash, kept symbolic
TorHash(p) == "16:" \o p

IsTorHash(h) == Len(h) >= 3 /\ SubSeq(h, 1, 3) = "16:"

HashOutcomes == {"ok", "missing", "nonzero"}

\* subprocess.getoutput(cmd): the output of the shell, whatever its exit
\* status; nothing is raised
getoutput(passwd, outcome) ==
    CASE outcome = "ok"      -> TorHash(passwd)
      [] outcome = "missing" -> "/bin/sh: 1: tor: not found"
      [] OTHER               -> ""

get_hash(passwd, outcome) == getoutput(passwd, outcome)

(***************************************************************************)
(* The environment of a construction.                                      *)
(***************************************************************************)
Envs == [hash : HashOutcomes, launch : {"ok", "fail"},
         connect : {"ok", "fail"}, auth : {"ok", "fail"}]

EnvNone == [hash |-> "ok", launch |-> "ok", connect |-> "ok", auth |-> "ok"]

\* stem.process.launch_tor_with_config: the daemon reaches its ready state
\* or the launch raises; a malformed HashedControlPassword is rejected
LaunchOutcome(cfg, e) ==
    /\ e.launch = "ok"
    /\ "HashedControlPassword" \in DOMAIN cfg
    /\ IsTorHash(cfg["HashedControlPassword"])

\* Controller.authenticate: the daemon checks the plaintext against the
\* hash it was launched with
AuthOutcome(hashed, passwd, e) == e.auth = "ok" /\ hashed = TorHash(passwd)

(***************************************************************************)
(* State.                                                                  *)
(***************************************************************************)
VARIABLES
    session,        \* slot -> the BaseCircuit object built in it
    daemon,         \* slot -> the daemon process the object launched
    default_proxy,  \* socks.set_default_proxy: the process-wide proxy port
    socket_patched, \* socket.socket = socks.socksocket
    calls,          \* the external calls of the most recent operation
    ret,            \* how the most recent operation ended
    env,            \* what the environment answered the last construction
    last_lookup,    \* the slot whose get_exit_ip ran most recently (0: none)
    delegation      \* the last preset call: what it was passed and what it
                    \* passed on to BaseCircuit.__init__

vars == <<session, daemon, default_proxy, socket_patched, calls, ret, env,
          last_lookup, delegation>>

NoDelegation == [passed |-> {}, kwargs |-> <<>>]

NoSession ==
    [status |-> "absent", cls |-> "", passed |-> {}, args |-> <<>>,
     verbose |-> PyNone,
     listen_port |-> PyNone, control_port |-> PyNone, tor_config |-> <<>>,
     control_passwd |-> "", has_proc |-> FALSE, has_controller |-> FALSE]

NoDaemon == [running |-> FALSE, hashed |-> "", circuits |-> {}, newnym |-> FALSE]

Init ==
    /\ session = [s \in SessionIds |-> NoSession]
    /\ daemon = [s \in SessionIds |-> NoDaemon]
    /\ default_proxy = PyNone
    /\ socket_patched = FALSE
    /\ calls = <<>>
    /\ ret = [op |-> "none", session |-> 0, kind |-> "return", value |-> PyNone]
    /\ env = EnvNone
    /\ last_lookup = 0
    /\ delegation = NoDelegation

(***************************************************************************)
(* BaseCircuit.__init__                                                    *)
(***************************************************************************)
BaseParams ==
    {"socks_port", "control_port", "listen_ip", "data_dir", "exclude_nodes",
     "exclude_exits", "exit_nodes", "entry_nodes", "trans_ip", "trans_port",
     "verbose"}

BaseDefaults ==
    [socks_port |-> PyInt(9050), control_port |-> PyInt(9051),
     listen_ip |-> PyString("127.0.0.1"), data_dir |-> PyBool(FALSE),
     exclude_nodes |-> PyList(<<>>), exclude_exits |-> PyList(<<>>),
     exit_nodes |-> PyList(<<>>), entry_nodes |-> PyList(<<>>),
     trans_ip |-> PyBool(FALSE), trans_port |-> PyBool(FALSE),
     verbose |-> PyBool(FALSE)]

\* keyword arguments bound to the parameters, defaults filling the rest
Bind(kw) ==
    [p \in BaseParams |-> IF p \in DOMAIN kw THEN kw[p] ELSE BaseDefaults[p]]

\* a plausible slip: the hash is computed and never stored
DropHashedPassword(cfg, hashed) == cfg

\* self.tor_config['HashedControlPassword'] = self.get_hash(...)
SetHashedPassword(cfg, hashed) == Put(cfg, "HashedControlPassword", hashed)

\* The constructor run on keyword arguments kw: the object it leaves, the
\* daemon, the external calls in order, and the exception (or "None").
BaseInit(cls, kw, stream, e) ==
    LET a        == Bind(kw)
        cfg      == BuildConfig(a)
        passwd   == gen_passwd(stream)
        hashed   == get_hash(passwd, e.hash)
        cfgH     == SetHashedPassword(cfg, hashed)
        launchOk == LaunchOutcome(cfgH, e)
        connOk   == e.connect = "ok"
        authOk   == AuthOutcome(cfgH["HashedControlPassword"], passwd, e)
        cHash    == [call |-> "getoutput",
                     cmd |-> "tor --hash-password " \o passwd,
                     out |-> hashed, status |-> e.hash]
        cLaunch  == [call |-> "launch_tor_with_config", config |-> cfgH,
                     take_ownership |-> TRUE, ok |-> launchOk]
        cConn    == [call |-> "from_port", port |-> a.control_port, ok |-> connOk]
        cAuth    == [call |-> "authenticate", password |-> passwd, ok |-> authOk]
        obj0     == [status |-> "error", cls |-> cls, passed |-> DOMAIN kw,
                     args |-> a, verbose |-> a.verbose, listen_port |-> a.socks_port,
                     control_port |-> a.control_port, tor_config |-> cfgH,
                     control_passwd |-> passwd, has_proc |-> FALSE,
                     has_controller |-> FALSE]
        dmn      == [running |-> TRUE,
                     hashed |-> IF "HashedControlPassword" \in DOMAIN cfgH
                                THEN cfgH["HashedControlPassword"] ELSE "",
                     circuits |-> {}, newnym |-> TRUE]
    IN  IF ~launchOk
        THEN [obj |-> obj0, daemon |-> NoDaemon, calls |-> <<cHash, cLaunch>>,
              raise |-> "OSError"]
        ELSE IF ~connOk
        THEN [obj |-> [obj0 EXCEPT !.has_proc = TRUE], daemon |-> dmn,
              calls |-> <<cHash, cLaunch, cConn>>, raise |-> "SocketError"]
        ELSE IF ~authOk
        THEN [obj |-> [obj0 EXCEPT !.has_proc = TRUE, !.has_controller = TRUE],
              daemon |-> dmn, calls |-> <<cHash, cLaunch, cConn, cAuth>>,
              raise |-> "AuthenticationFailure"]
        ELSE [obj |-> [obj0 EXCEPT !.status = "ready", !.has_proc = TRUE,
                                   !.has_controller = TRUE],
              daemon |-> dmn, calls |-> <<cHash, cLaunch, cConn, cAuth>>,
              raise |-> "None"]

\* the state after a constructor call in slot s ended as r
Constructed(s, cls, r, e, dlg) ==
    /\ session' = [session EXCEPT ![s] = r.obj]
    /\ daemon' = [daemon EXCEPT ![s] = r.daemon]
    /\ calls' = r.calls
    /\ ret' = [op |-> cls, session |-> s,
               kind |-> IF r.raise = "None" THEN "return" ELSE "raise",
               value |-> IF r.raise = "None" THEN PyNone ELSE PyExc(r.raise)]
    /\ env' = e
    /\ delegation' = dlg
    /\ UNCHANGED <<default_proxy, socket_patched, last_lookup>>

\* BaseCircuit(**kw) evaluated in the free slot s
Construct(s, kw, stream, e) ==
    /\ session[s].status = "absent"
    /\ DOMAIN kw \subseteq BaseParams
    /\ \E r \in {BaseInit("BaseCircuit", kw, stream, e)} :
           Constructed(s, "BaseCircuit", r, e, NoDelegation)

(***************************************************************************)
(* Inputs of the construction specification.                               *)
(***************************************************************************)
CountryLists == {PyList(<<>>), PyList(<<"us">>), PyList(<<"us", "de">>)}

ShortLists == {PyList(<<>>), PyList(<<"ru", "cn">>)}

FullKwargs ==
    [data_dir : {PyBool(FALSE), PyString("/var/lib/tor")},
     exclude_nodes : CountryLists \cup {PyNone}, exclude_exits : CountryLists,
     exit_nodes : ShortLists, entry_nodes : ShortLists,
     trans_port : {PyBool(FALSE), PyInt(9040)},
     trans_ip : {PyBool(FALSE), PyString("10.0.0.1")}]

\* the same calls with exclude_nodes left to its default
Without(kw, p) == [k \in (DOMAIN kw) \ {p} |-> kw[k]]

BuildKwargs ==
    FullKwargs \cup
    {Without(kw, "exclude_nodes") : kw \in {k \in FullKwargs : k.exclude_nodes = PyNone}}

\* one construction in the first slot, while it is free
NextBuild ==
    /\ session[1].status = "absent"
    /\ \E kw \in BuildKwargs, stream \in Streams, e \in Envs :
           Construct(1, kw, stream, e)

SpecBuild == Init /\ [][NextBuild]_vars

(***************************************************************************)
(* Tunnel presets: LocalTorTunnel.__init__, TransparentTorTunnel.__init__. *)
(***************************************************************************)
LocalListenPort == 9050

LocalControlPortOffset == 100

TransparentListenPort == 9040

TransparentControlPortOffset == 100

LocalDefaults ==
    [listen_ip |-> PyString("127.0.0.1"), listen_port |-> PyInt(LocalListenPort),
     control_port_offset |-> PyInt(LocalControlPortOffset),
     exclude_nodes |-> PyNone, exclude_exits |-> PyNone, exit_nodes |-> PyNone,
     entry_nodes |-> PyNone, verbose |-> PyBool(FALSE)]

TransparentDefaults ==
    [listen_ip |-> PyString("127.0.0.1"),
     listen_port |-> PyInt(TransparentListenPort),
     control_port_offset |-> PyInt(TransparentControlPortOffset),
     exclude_nodes |-> PyNone, exclude_exits |-> PyNone, exit_nodes |-> PyNone,
     entry_nodes |-> PyNone, verbose |-> PyBool(FALSE)]

BindPreset(kw, defaults) ==
    [p \in DOMAIN defaults |-> IF p \in DOMAIN kw THEN kw[p] ELSE defaults[p]]

\* a plausible slip: an offset one too large
ControlPortOffByOne(listen_port, offset) == PyInt(listen_port.v + offset.v + 1)

\* control_port = listen_port + control_port_offset
ControlPortArg(listen_port, offset) == PyInt(listen_port.v + offset.v)

\* the keyword arguments LocalTorTunnel passes to super().__init__
LocalSuperKwargs(a) ==
    [socks_ip |-> a.listen_ip, socks_port |-> a.listen_port,
     control_port |-> ControlPortArg(a.listen_port, a.control_port_offset),
     exclude_nodes |-> a.exclude_nodes, exclude_exits |-> a.exclude_exits,
     exit_nodes |-> a.exit_nodes, entry_nodes |-> a.entry_nodes,
     verbose |-> a.verbose]

\* the keyword arguments TransparentTorTunnel passes to super().__init__
TransparentSuperKwargs(a) ==
    [trans_ip |-> a.listen_ip, trans_port |-> a.listen_port,
     socks_ip |-> PyNone, socks_port |-> PyNone,
     control_port |-> ControlPortArg(a.listen_port, a.control_port_offset),
     exclude_nodes |-> a.exclude_nodes, exclude_exits |-> a.exclude_exits,
     exit_nodes |-> a.exit_nodes, entry_nodes |-> a.entry_nodes,
     verbose |-> a.verbose]

\* super().__init__(**kw): Python binds the keywords to the parameters of
\* BaseCircuit.__init__ first and raises TypeError on an unexpected one, with
\* no statement of the body run
SuperInit(s, cls, passed, kw, stream, e) ==
    LET dlg == [passed |-> passed, kwargs |-> kw]
    IN  IF DOMAIN kw \subseteq BaseParams
        THEN \E r \in {BaseInit(cls, kw, stream, e)} :
                 Constructed(s, cls, r, e, dlg)
        ELSE Constructed(s, cls,
                         [obj |-> [NoSession EXCEPT !.status = "error", !.cls = cls],
                          daemon |-> NoDaemon, calls |-> <<>>,
                          raise |-> "TypeError"],
                         e, dlg)

LocalTorTunnel(s, kw, stream, e) ==
    /\ session[s].status = "absent"
    /\ DOMAIN kw \subseteq DOMAIN LocalDefaults
    /\ SuperInit(s, "LocalTorTunnel", DOMAIN kw,
                 LocalSuperKwargs(BindPreset(kw, LocalDefaults)), stream, e)

TransparentTorTunnel(s, kw, stream, e) ==
    /\ session[s].status = "absent"
    /\ DOMAIN kw \subseteq DOMAIN TransparentDefaults
    /\ SuperInit(s, "TransparentTorTunnel", DOMAIN kw,
                 TransparentSuperKwargs(BindPreset(kw, TransparentDefaults)),
                 stream, e)

(***************************************************************************)
(* Inputs of the preset specification.                                     *)
(***************************************************************************)
Absent == [t |-> "absent"]

PresetChoices ==
    [listen_port : {Absent, PyInt(9050), PyInt(9040), PyInt(8118)},
     control_port_offset : {Absent, PyInt(100), PyInt(1)},
     exclude_nodes : {Absent, PyNone, PyList(<<"us">>)},
     verbose : {Absent, PyBool(TRUE)}]

\* the keyword arguments a choice stands for
Passed(c) == [k \in {x \in DOMAIN c : c[x] # Absent} |-> c[k]]

PresetKwargs == {Passed(c) : c \in PresetChoices}

\* one preset construction in the first slot, while it is free
NextPresets ==
    /\ session[1].status = "absent"
    /\ \E kw \in PresetKwargs, stream \in Streams, e \in Envs :
           \/ LocalTorTunnel(1, kw, stream, e)
           \/ TransparentTorTunnel(1, kw, stream, e)

SpecPresets == Init /\ [][NextPresets]_vars

(***************************************************************************)
(* Circuit Operations: get_exit_ip, check_latency, change_identity.        *)
(***************************************************************************)
RECURSIVE ReprBytes(_, _)
\* the body of repr() of a bytes object: newline, backslash and quote are
\* escaped
ReprBytes(body, i) ==
    IF i > Len(body) THEN ""
    ELSE LET c == SubSeq(body, i, i)
         IN  (CASE c = "\n" -> "\\n"
                [] c = "\\" -> "\\\\"
                [] c = "'"  -> "\\'"
                [] OTHER    -> c) \o ReprBytes(body, i + 1)

\* str(b) of a bytes object b
PyStrBytes(body) == "b'" \o ReprBytes(body, 1) \o "'"

Whitespace == {" ", "\n", "\t", "\r"}

RECURSIVE LStrip(_)
LStrip(str) ==
    IF Len(str) > 0 /\ SubSeq(str, 1, 1) \in Whitespace
    THEN LStrip(SubSeq(str, 2, Len(str))) ELSE str

RECURSIVE RStrip(_)
RStrip(str) ==
    IF Len(str) > 0 /\ SubSeq(str, Len(str), Len(str)) \in Whitespace
    THEN RStrip(SubSeq(str, 1, Len(str) - 1)) ELSE str

\* str.strip()
Strip(str) == LStrip(RStrip(str))

\* str(r.read()).strip()
ExitIpString(body) == Strip(PyStrBytes(body))

\* what the IP echo service answers, or the request fails
Bodies == {"1.1.1.1\n", "2.2.2.2\n", "1.1.1.1"}

Responses == [ok : {TRUE}, body : Bodies] \cup {[ok |-> FALSE, body |-> ""]}

\* a plausible slip: the proxy pointed at the control port
ProxyOnControlPort(obj) == obj.control_port

\* the port of socks.set_default_proxy(socks.SOCKS5, "localhost", ...)
ProxyPort(obj) == obj.listen_port

\* the external calls of one get_exit_ip
LookupCalls(obj, resp) ==
    << [call |-> "set_default_proxy", port |-> ProxyPort(obj)],
       [call |-> "urlopen", proxy |-> ProxyPort(obj), ok |-> resp.ok,
        body |-> resp.body] >>

\* the process-wide effect of one get_exit_ip of slot s
Looked(s) ==
    /\ default_proxy' = ProxyPort(session[s])
    /\ socket_patched' = TRUE
    /\ last_lookup' = s

GetExitIp(s, resp) ==
    /\ session[s].status = "ready"
    /\ Looked(s)
    /\ calls' = LookupCalls(session[s], resp)
    /\ ret' = [op |-> "get_exit_ip", session |-> s,
               kind |-> IF resp.ok THEN "return" ELSE "raise",
               value |-> IF resp.ok THEN PyString(ExitIpString(resp.body))
                         ELSE PyExc("URLError")]
    /\ UNCHANGED <<session, daemon, env, delegation>>

\* time.time() - start around one get_exit_ip; t is the clock's advance
CheckLatency(s, resp, t) ==
    /\ session[s].status = "ready"
    /\ Looked(s)
    /\ calls' = LookupCalls(session[s], resp)
    /\ ret' = IF resp.ok
              THEN [op |-> "check_latency", session |-> s, kind |-> "return",
                    value |-> PyInt(t)]
              ELSE [op |-> "check_latency", session |-> s, kind |-> "raise",
                    value |-> PyExc("URLError")]
    /\ UNCHANGED <<session, daemon, env, delegation>>

RECURSIVE SortedSeq(_)
\* controller.get_circuits(): the open circuits, as a list
SortedSeq(S) ==
    IF S = {} THEN <<>>
    ELSE LET m == CHOOSE x \in S : \A y \in S : x <= y
         IN  <<m>> \o SortedSeq(S \ {m})

\* the calls of a rotation up to the first one the controller rejects:
\* with ctl = "fail" the first signal or close raises and ends the run
Attempted(L, ctl) ==
    LET mut   == {i \in 1..Len(L) : L[i].call \in {"signal", "close"}}
        first == IF mut = {} THEN 0 ELSE CHOOSE i \in mut : \A k \in mut : i <= k
    IN  IF ctl = "ok" \/ first = 0
        THEN [i \in 1..Len(L) |-> IF i \in mut THEN [L[i] EXCEPT !.ok = TRUE] ELSE L[i]]
        ELSE [i \in 1..first |-> IF i = first THEN [L[i] EXCEPT !.ok = FALSE] ELSE L[i]]

\* a plausible slip: the branches of the rotation exchanged
RotationSwapped(newnym, circuits, ctl) ==
    Attempted(
        IF ~newnym
        THEN << [call |-> "signal", sig |-> "NEWNYM", ok |-> TRUE] >>
        ELSE << [call |-> "get_circuits", res |-> circuits] >>
             \o [i \in 1..Len(circuits) |->
                    [call |-> "close", circuit |-> circuits[i], ok |-> TRUE]],
        ctl)

\* the calls of the rotation step, after is_newnym_available() answered
RotationCalls(newnym, circuits, ctl) ==
    Attempted(
        IF newnym
        THEN << [call |-> "signal", sig |-> "NEWNYM", ok |-> TRUE] >>
        ELSE << [call |-> "get_circuits", res |-> circuits] >>
             \o [i \in 1..Len(circuits) |->
                    [call |-> "close", circuit |-> circuits[i], ok |-> TRUE]],
        ctl)

\* whether a controller call of L raised
Rejected(L) == \E i \in 1..Len(L) : L[i].call \in {"signal", "close"} /\ ~L[i].ok

\* the daemon after the calls L: NEWNYM is rate limited once sent, a closed
\* circuit is gone
DaemonAfter(d, L) ==
    LET done(name) == {i \in 1..Len(L) : L[i].call = name /\ L[i].ok}
    IN  [d EXCEPT
           !.newnym = d.newnym /\ done("signal") = {},
           !.circuits = d.circuits \ {L[i].circuit : i \in done("close")}]

\* a plausible slip: the comparison inverted
SameIdentity(start, end) == start = end

\* return start != end
IdentityChanged(start, end) == start # end

ChangeIdentity(s, r1, auth, ctl, r2) ==
    LET obj     == session[s]
        authOk  == AuthOutcome(daemon[s].hashed, obj.control_passwd,
                               [EnvNone EXCEPT !.auth = auth])
        cAuth   == [call |-> "authenticate", password |-> obj.control_passwd,
                    ok |-> authOk]
        cAvail  == [call |-> "is_newnym_available", res |-> daemon[s].newnym]
        rot     == RotationCalls(daemon[s].newnym, SortedSeq(daemon[s].circuits),
                                 ctl)
        raised(x) == [op |-> "change_identity", session |-> s, kind |-> "raise",
                      value |-> PyExc(x)]
    IN  /\ obj.status = "ready"
        /\ Looked(s)
        /\ UNCHANGED <<session, env, delegation>>
        /\ IF ~r1.ok
           THEN /\ calls' = LookupCalls(obj, r1)
                /\ ret' = raised("URLError")
                /\ UNCHANGED daemon
           ELSE IF ~authOk
           THEN /\ calls' = LookupCalls(obj, r1) \o <<cAuth>>
                /\ ret' = raised("AuthenticationFailure")
                /\ UNCHANGED daemon
           ELSE IF Rejected(rot)
           THEN /\ calls' = LookupCalls(obj, r1) \o <<cAuth, cAvail>> \o rot
                /\ daemon' = [daemon EXCEPT ![s] = DaemonAfter(daemon[s], rot)]
                /\ ret' = raised("ControllerError")
           ELSE /\ calls' = LookupCalls(obj, r1) \o <<cAuth, cAvail>> \o rot
                              \o LookupCalls(obj, r2)
                /\ daemon' = [daemon EXCEPT ![s] = DaemonAfter(daemon[s], rot)]
                /\ ret' = IF ~r2.ok THEN raised("URLError")
                          ELSE [op |-> "change_identity", session |-> s,
                                kind |-> "return",
                                value |-> PyBool(
                                    IdentityChanged(ExitIpString(r1.body),
                                                    ExitIpString(r2.body)))]

(***************************************************************************)
(* The daemon on its own: it builds circuits, and the NEWNYM rate limit    *)
(* passes.                                                                 *)
(***************************************************************************)
BuildCircuit(s) ==
    /\ session[s].status = "ready"
    /\ daemon[s].running
    /\ Cardinality(daemon[s].circuits) < MaxCircuits
    /\ LET c == CHOOSE x \in 1..MaxCircuits :
                    /\ x \notin daemon[s].circuits
                    /\ \A y \in 1..MaxCircuits : y \notin daemon[s].circuits => x <= y
       IN  daemon' = [daemon EXCEPT ![s].circuits = @ \cup {c}]
    /\ UNCHANGED <<session, default_proxy, socket_patched, calls, ret, env,
                   last_lookup, delegation>>

NewnymReady(s) ==
    /\ session[s].status = "ready"
    /\ daemon[s].running
    /\ ~daemon[s].newnym
    /\ daemon' = [daemon EXCEPT ![s].newnym = TRUE]
    /\ UNCHANGED <<session, default_proxy, socket_patched, calls, ret, env,
                   last_lookup, delegation>>

(***************************************************************************)
(* The specification of sessions in use: two sessions in one process, each *)
(* on its own ports.                                                       *)
(***************************************************************************)
SessionKwargs(s) ==
    [socks_port |-> PyInt(9050 + 10 * (s - 1)),
     control_port |-> PyInt(9051 + 10 * (s - 1))]

\* the stream whose every draw is the first element of chars
FirstStream == [i \in 1..PasswdDraws |-> 1]

UseEnvs == {e \in Envs : e.hash = "ok" /\ e.connect = "ok"}

Next ==
    \E s \in SessionIds :
        \/ \E e \in UseEnvs : Construct(s, SessionKwargs(s), FirstStream, e)
        \/ \E resp \in Responses : GetExitIp(s, resp)
        \/ \E resp \in Responses, t \in 0..MaxElapsed : CheckLatency(s, resp, t)
        \/ \E r1 \in Responses, r2 \in Responses, auth \in {"ok", "fail"},
              ctl \in {"ok", "fail"} :
               ChangeIdentity(s, r1, auth, ctl, r2)
        \/ BuildCircuit(s)
        \/ NewnymReady(s)

Spec == Init /\ [][Next]_vars

(***************************************************************************)
(* Properties of the configuration builder and of the construction.        *)
(***************************************************************************)
Built(s) == session[s].status # "absent"

\* the optional keys of add_to_config and the argument each comes from
OptionalKeys ==
    { <<"DataDir", "data_dir">>, <<"ExcludeNodes", "exclude_nodes">>,
      <<"ExcludeExits", "exclude_exits">>, <<"ExitNodes", "exit_nodes">>,
      <<"EntryNodes", "entry_nodes">> }

NonEmptyList(v) == v.t = "list" /\ v.v # <<>>

\* C1: every optional key is absent from the built configuration when its
\* source value is empty/false, and present with the comma-joined elements
\* as its value when the source is a non-empty list of country codes.
C1_OptionalKeysCommaJoined ==
    \A s \in SessionIds : Built(s) =>
        \A kp \in OptionalKeys :
            LET v   == session[s].args[kp[2]]
                cfg == session[s].tor_config
            IN  /\ ~Truthy(v) => kp[1] \notin DOMAIN cfg
                /\ NonEmptyList(v) =>
                       (kp[1] \in DOMAIN cfg /\ cfg[kp[1]] = Join(v.v, ","))

\* C2: StrictNodes is in the built configuration, with value '0', exactly
\* when the exclude_nodes argument is non-empty; an empty, None or missing
\* exclude_nodes gives no StrictNodes, whatever the other three filters are.
C2_StrictNodesIffExcludeNodes ==
    \A s \in SessionIds : Built(s) =>
        LET cfg  == session[s].tor_config
            excl == session[s].args.exclude_nodes
        IN  /\ ("StrictNodes" \in DOMAIN cfg) <=> NonEmptyList(excl)
            /\ "StrictNodes" \in DOMAIN cfg => cfg["StrictNodes"] = "0"
            /\ "exclude_nodes" \notin session[s].passed =>
                   "StrictNodes" \notin DOMAIN cfg

\* C2's case: a non-empty exclude_nodes with an empty exclude_exits, and the
\* flag set.
C2_Witness ==
    \E s \in SessionIds :
        /\ Built(s)
        /\ NonEmptyList(session[s].args.exclude_nodes)
        /\ session[s].args.exclude_exits = PyList(<<>>)
        /\ NonEmptyList(session[s].args.exit_nodes)
        /\ "StrictNodes" \in DOMAIN session[s].tor_config

AlnumChars ==
    {"a","b","c","d","e","f","g","h","i","j","k","l","m","n","o","p","q","r",
     "s","t","u","v","w","x","y","z","A","B","C","D","E","F","G","H","I","J",
     "K","L","M","N","O","P","Q","R","S","T","U","V","W","X","Y","Z","0","1",
     "2","3","4","5","6","7","8","9"}

CharsOf(str) == {SubSeq(str, i, i) : i \in 1..Len(str)}

\* C5: every generated plaintext is exactly 20 characters long, each of
\* them an alphanumeric character, and every alphanumeric character is among
\* those the generator draws from.
C5_PasswdTwentyAlnum ==
    \A s \in SessionIds : Built(s) =>
        /\ Len(session[s].control_passwd) = 20
        /\ CharsOf(session[s].control_passwd) \subseteq AlnumChars
        /\ AlnumChars \subseteq UNION {CharsOf(chars[k]) : k \in 1..Len(chars)}

CallNames(L) == [i \in 1..Len(L) |-> L[i].call]

Called(L, name) == \E i \in 1..Len(L) : L[i].call = name

HashingFailed == \E i \in 1..Len(calls) :
                    calls[i].call = "getoutput" /\ calls[i].status # "ok"

\* C6: when the hashing subprocess fails the construction raises an error
\* of its own before any launch: the daemon is not launched, no control
\* connection is opened; and no launch is ever given a HashedControlPassword
\* that is empty or not the hash of the generated plaintext.
C6_HashFailureAborts ==
    /\ HashingFailed =>
          /\ ret.kind = "raise"
          /\ ret.value.v \notin {"OSError", "SocketError", "AuthenticationFailure"}
          /\ ~Called(calls, "launch_tor_with_config")
          /\ ~Called(calls, "from_port")
    /\ \A i \in 1..Len(calls) : calls[i].call = "launch_tor_with_config" =>
          /\ "HashedControlPassword" \in DOMAIN calls[i].config
          /\ calls[i].config["HashedControlPassword"]
                = TorHash(session[ret.session].control_passwd)

IsPrefix(a, b) == Len(a) <= Len(b) /\ a = SubSeq(b, 1, Len(a))

ConstructorOps == {"BaseCircuit", "LocalTorTunnel", "TransparentTorTunnel"}

\* C9: a construction calls, in this order, the hashing subprocess, the
\* launch, the control connection and the authentication; the launch is
\* given a configuration that holds, as HashedControlPassword, the output of
\* hashing the generated plaintext; the connection is opened only after a
\* successful launch; the authentication sends that same plaintext; a failed
\* launch leaves no connection and no controller, and a failed launch,
\* connection or authentication leaves no usable session.
C9_ConstructionOrder ==
    (ret.op \in ConstructorOps /\ calls # <<>>) =>
        LET obj == session[ret.session]
            L   == calls
        IN  /\ IsPrefix(CallNames(L), <<"getoutput", "launch_tor_with_config",
                                        "from_port", "authenticate">>)
            /\ Len(L) >= 2
            /\ L[1].cmd = "tor --hash-password " \o obj.control_passwd
            /\ "HashedControlPassword" \in DOMAIN L[2].config
            /\ L[2].config["HashedControlPassword"] = L[1].out
            /\ L[2].config = obj.tor_config
            /\ Len(L) >= 3 => (L[2].ok /\ L[3].port = obj.control_port)
            /\ Len(L) >= 4 => (L[3].ok /\ L[4].password = obj.control_passwd)
            /\ ~L[2].ok => (Len(L) = 2 /\ ~obj.has_controller
                            /\ ~daemon[ret.session].running)
            /\ obj.status = "ready" <=> (Len(L) = 4 /\ L[4].ok)
            /\ obj.status # "ready" <=> ret.kind = "raise"

\* C9's case: a construction that went through all four calls and
\* authenticated.
C9_Witness ==
    /\ ret.op = "BaseCircuit" /\ ret.kind = "return"
    /\ Len(calls) = 4 /\ calls[4].ok
    /\ session[ret.session].status = "ready"

(***************************************************************************)
(* Properties of the presets.                                              *)
(***************************************************************************)
PresetOps == {"LocalTorTunnel", "TransparentTorTunnel"}

DefaultPorts == {"listen_port", "control_port_offset"} \cap delegation.passed = {}

\* C3 as stated: with default arguments the local preset passes control
\* port 9151 and the transparent preset 9140.
C3_DefaultControlPortsAsStated ==
    /\ (ret.op = "LocalTorTunnel" /\ DefaultPorts) =>
           delegation.kwargs.control_port = PyInt(9151)
    /\ (ret.op = "TransparentTorTunnel" /\ DefaultPorts) =>
           delegation.kwargs.control_port = PyInt(9140)

\* C3, amended: with default arguments the local preset (port 9050) derives
\* control port 9150 = 9050 + 100 and the transparent preset (port 9040)
\* control port 9140 = 9040 + 100, as the control_port it hands on.
C3_DefaultControlPorts ==
    /\ (ret.op = "LocalTorTunnel" /\ DefaultPorts) =>
           delegation.kwargs.control_port = PyInt(9150)
    /\ (ret.op = "TransparentTorTunnel" /\ DefaultPorts) =>
           delegation.kwargs.control_port = PyInt(9140)

\* C3's case: the local preset called with its default ports.
C3_Witness ==
    /\ ret.op = "LocalTorTunnel" /\ DefaultPorts
    /\ delegation.kwargs.socks_port = PyInt(9050)
    /\ delegation.kwargs.control_port = PyInt(9150)

\* C4: a preset hands BaseCircuit.__init__ only parameters it accepts, and
\* when hashing, launch, connection and authentication all succeed the
\* construction returns a launched and authenticated session.
C4_PresetsConstruct ==
    ret.op \in PresetOps =>
        /\ DOMAIN delegation.kwargs \subseteq BaseParams
        /\ env = EnvNone =>
               (ret.kind = "return" /\ session[ret.session].status = "ready")

(***************************************************************************)
(* Properties of the circuit operations.                                   *)
(***************************************************************************)
IsUrlopen(c) == c.call = "urlopen"

Lookups(L) == SelectSeq(L, IsUrlopen)

Mutating(c) == c.call \in {"signal", "close"}

Positions(L, name) == {i \in 1..Len(L) : L[i].call = name}

\* C7: change_identity returns TRUE exactly when the string its second
\* lookup returned differs from the string its first lookup returned, and
\* FALSE when they are equal, on the NEWNYM path and on the close path.
C7_ReturnsWhetherIpDiffers ==
    (ret.op = "change_identity" /\ ret.kind = "return") =>
        LET u == Lookups(calls)
        IN  /\ Len(u) = 2
            /\ ret.value.t = "bool"
            /\ ret.value.v <=> (ExitIpString(u[1].body) # ExitIpString(u[2].body))

\* C7's case: a rotation by closing circuits after which the same address
\* is observed, and FALSE returned.
C7_Witness ==
    /\ ret.op = "change_identity" /\ ret.kind = "return"
    /\ Called(calls, "close")
    /\ Lookups(calls)[1].body = Lookups(calls)[2].body
    /\ ret.value = PyBool(FALSE)

IsRotation(c) == c.call \in {"signal", "get_circuits", "close"}

\* C8: a run of change_identity makes its calls in the order first lookup,
\* authenticate with the session password, rotation, second lookup; the
\* rotation is one NEWNYM signal and no close when NEWNYM is available, and
\* otherwise no signal and one close per enumerated circuit, in turn; no
\* signal or close comes before a successful authenticate, none at all after
\* a failed one; only a call that raises cuts the order short.
C8_ChangeIdentityOrder ==
    ret.op = "change_identity" =>
        LET L    == calls
            obj  == session[ret.session]
            n    == Len(L)
            rot  == SelectSeq(L, IsRotation)
            m    == Len(rot)
        IN  /\ n >= 2 /\ L[1].call = "set_default_proxy" /\ L[2].call = "urlopen"
            /\ n >= 3 => (/\ L[2].ok
                          /\ L[3].call = "authenticate"
                          /\ L[3].password = obj.control_passwd)
            /\ \A i \in 1..n : Mutating(L[i]) =>
                   (i > 3 /\ L[3].call = "authenticate" /\ L[3].ok)
            /\ (n >= 3 /\ ~L[3].ok) => (n = 3 /\ ret.kind = "raise")
            /\ n >= 4 =>
                  /\ L[4].call = "is_newnym_available"
                  /\ rot = SubSeq(L, 5, 4 + m)
                  /\ IF L[4].res
                     THEN CallNames(rot) = <<"signal">> /\ rot[1].sig = "NEWNYM"
                     ELSE /\ m >= 1 /\ rot[1].call = "get_circuits"
                          /\ m <= 1 + Len(rot[1].res)
                          /\ \A k \in 2..m :
                                /\ rot[k].call = "close"
                                /\ rot[k].circuit = rot[1].res[k - 1]
                  /\ \A k \in 1..m : (Mutating(rot[k]) /\ ~rot[k].ok) =>
                        (k = m /\ n = 4 + m /\ ret.kind = "raise")
                  /\ ~Rejected(rot) =>
                        /\ ~L[4].res => m = 1 + Len(rot[1].res)
                        /\ n = 6 + m
                        /\ L[n - 1].call = "set_default_proxy"
                        /\ L[n].call = "urlopen"
            /\ ret.kind = "return" => (n >= 4 /\ L[n].call = "urlopen" /\ L[n].ok)

\* C8's case: NEWNYM not available, two circuits open, both closed.
C8_Witness ==
    /\ ret.op = "change_identity" /\ ret.kind = "return"
    /\ Cardinality(Positions(calls, "close")) = 2
    /\ ~Called(calls, "signal")
    /\ daemon[ret.session].circuits = {}

LookupOps == {"get_exit_ip", "check_latency", "change_identity"}

\* the state part of C10
ProxyFollowsLastLookup ==
    /\ last_lookup = 0 => (default_proxy = PyNone /\ ~socket_patched)
    /\ last_lookup # 0 =>
          /\ session[last_lookup].status = "ready"
          /\ default_proxy = session[last_lookup].listen_port
    /\ ret.op \in LookupOps =>
          /\ last_lookup = ret.session
          /\ \A i \in 1..Len(calls) : calls[i].call = "urlopen" =>
                 /\ calls[i].proxy = session[ret.session].listen_port
                 /\ i > 1 /\ calls[i - 1].call = "set_default_proxy"
                 /\ calls[i - 1].port = session[ret.session].listen_port

\* C10: every lookup is made with the process-wide proxy set to the listen
\* port of the session it was called on; the proxy is never restored, and
\* always is the listen port of the session that looked up last; a lookup
\* operation changes no session object.
C10_ProxyFollowsLastLookup ==
    /\ []ProxyFollowsLastLookup
    /\ [][ret'.op \in LookupOps => session' = session]_vars

\* C10's case: both sessions ready, the first looked up earlier, the second
\* looked up last, and the proxy is on the second one's port.
C10_Witness ==
    /\ session[1].status = "ready" /\ session[2].status = "ready"
    /\ session[1].listen_port # session[2].listen_port
    /\ ret.op = "check_latency" /\ ret.session = 2
    /\ last_lookup = 2
    /\ default_proxy = session[2].listen_port

====
